---- MODULE Spec2Model ----
(***************************************************************************)
(* A model of src/lex.ts: the rule compiler (buildRules, buildRule and the *)
(* spec* helpers) as operators, and one tokenizer stream of a compiled     *)
(* Lexer as a state machine.  A text is a sequence of one-character        *)
(* strings; a RegExp is a record naming its shape, so that exec() is       *)
(* computed.  The generator lex() is followed statement by statement: it   *)
(* is suspended at a yield (pc "yielded", "final"), not started ("start"), *)
(* finished ("done"), or running at the head of its while loop ("loop").   *)
(* A second stream of the same Lexer is kept beside the one being called,  *)
(* and the caller may turn from one to the other between two calls.        *)
(***************************************************************************)
EXTENDS Integers, Sequences, FiniteSets

\* ---------------------------------------------------------------- bounds
\* Longest enumerated input text.
MaxLen == 3
\* Most iterations of the while loop of lex() that a stream is followed for.
MaxSteps == 8
\* Most nextToken() calls followed after the generator has finished.
MaxFail == 2
\* Most iterators obtained from one tokenizer.
MaxIter == 2
\* Longest text of two streams followed side by side, or of one read through
\* two views.
MaxLenStreams == 2

\* ------------------------------------------------------------ characters
LineTerminators == {"\n"}

Alphabet == {"a", "1", " ", "\"", "\n"}

\* the property `null` of a rule's push field
NULL == "<null>"

\* the value of a missing array element or object property
UNDEFINED == [t |-> "undefined", v |-> ""]

\* ------------------------------------------------------------- RegExp
\* Character classes of the patterns used: [0-9], " ", [^"], a, and `.`,
\* which under the flags vy (no s flag) matches no line terminator.
InClass(cls, c) ==
  CASE cls = "digit"    -> c \in {"1", "2", "3", "4"}
    [] cls = "space"    -> c = " "
    [] cls = "notquote" -> c # "\""
    [] cls = "a"        -> c = "a"
    [] cls = "dot"      -> c \notin LineTerminators
    [] OTHER            -> FALSE

\* A RegExp object: kind "lit" matches the characters of lit, kind "plus" one
\* or more characters of cls, kind "star" zero or more of them.
RegExpLit(lit, flags) == [kind |-> "lit", cls |-> "", lit |-> lit, flags |-> flags]
RegExpPlus(cls, flags) == [kind |-> "plus", cls |-> cls, lit |-> <<>>, flags |-> flags]
RegExpStar(cls, flags) == [kind |-> "star", cls |-> cls, lit |-> <<>>, flags |-> flags]

\* Length of the longest run of cls characters of s from the 0-based index i.
RECURSIVE Run(_, _, _)
Run(cls, s, i) ==
  IF i < Len(s) /\ InClass(cls, s[i + 1]) THEN 1 + Run(cls, s, i + 1) ELSE 0

\* the result `null` of exec()
NoMatch == 0 - 1

\* rx.exec(s) of a sticky RegExp whose lastIndex is i: the length of match[0],
\* matched exactly at i and greedily, or NoMatch.
Exec(rx, s, i) ==
  IF i > Len(s) THEN NoMatch
  ELSE CASE rx.kind = "lit" ->
              IF i + Len(rx.lit) <= Len(s) /\ SubSeq(s, i + 1, i + Len(rx.lit)) = rx.lit
              THEN Len(rx.lit) ELSE NoMatch
         [] rx.kind = "plus" ->
              IF Run(rx.cls, s, i) >= 1 THEN Run(rx.cls, s, i) ELSE NoMatch
         [] rx.kind = "star" -> Run(rx.cls, s, i)

\* The RegExp rx as the object obj: two RegExps of equal pattern and flags are
\* two objects, each with a lastIndex of its own.
RegExpObject(rx, obj) ==
  [kind |-> rx.kind, cls |-> rx.cls, lit |-> rx.lit, flags |-> rx.flags, obj |-> obj]

\* rx.lastIndex after that exec(): the end of the match, 0 after a failure.
ExecLastIndex(rx, s, i) ==
  IF Exec(rx, s, i) = NoMatch THEN 0 ELSE i + Exec(rx, s, i)

\* ------------------------------------------------------------- specs
\* The elements of a Spec array, tagged with their JavaScript type.
Str(v) == [t |-> "string", v |-> v]
Rx(r) == [t |-> "RegExp", v |-> r]
Fn(a) == [t |-> "function", v |-> a]
POP == [t |-> "symbol", v |-> "POP"]

\* spec[i], 0-based as in the source
At(spec, i) == IF i + 1 <= Len(spec) THEN spec[i + 1] ELSE UNDEFINED

specPop(spec) == At(spec, 1) = POP \/ At(spec, 2) = POP

specPush(spec) ==
  IF At(spec, 1).t = "string" THEN At(spec, 1).v
  ELSE IF At(spec, 2).t = "string" THEN At(spec, 2).v
  ELSE NULL

\* The first function of the spec, the identity action without one.  An action
\* is named by what it does: "identity", "null" (returns null), "relabel".
specAction(spec) ==
  LET fns == SelectSeq(spec, LAMBDA el : el.t = "function")
  IN IF fns # <<>> THEN fns[1].v ELSE "identity"

\* The characters of a string.  One-character strings are their own only
\* character; the longer literal used as a rule name is spelled out.
Chars(str) ==
  CASE str = "a1" -> <<"a", "1">>
    [] OTHER -> <<str>>

\* The characters rxEsc puts a backslash before: - [ ] { } ( ) * + ! < = ? . /
\* \ ^ $ | # , and white space (\s), which line terminators belong to.
rxEscaped ==
  {"-", "[", "]", "{", "}", "(", ")", "*", "+", "!", "<", "=", "?", ".", "/", "\\", "^", "$",
   "|", "#", ",", " ", "\n"}

\* rxEsc, on the characters of a string: the characters of the pattern source
RECURSIVE rxEsc(_)
rxEsc(chars) ==
  IF chars = <<>> THEN <<>>
  ELSE (IF Head(chars) \in rxEscaped THEN <<"\\", Head(chars)>> ELSE <<Head(chars)>>)
         \o rxEsc(Tail(chars))

\* The characters a backslash may stand before under the flag v, outside a
\* class, to mean the character itself: the syntax characters and the slash.
IdentityEscapes == {"^", "$", "\\", ".", "*", "+", "?", "(", ")", "[", "]", "{", "}", "|", "/"}

\* The characters a pattern source of plain and escaped characters matches:
\* ok is FALSE for a backslash before a character that is no identity escape.
RECURSIVE unescaped(_)
unescaped(source) ==
  IF source = <<>> THEN [ok |-> TRUE, lit |-> <<>>]
  ELSE IF Head(source) = "\\"
  THEN IF Len(source) >= 2 /\ source[2] \in IdentityEscapes
       THEN LET rest == unescaped(SubSeq(source, 3, Len(source)))
            IN [ok |-> rest.ok, lit |-> <<source[2]>> \o rest.lit]
       ELSE [ok |-> FALSE, lit |-> <<>>]
  ELSE LET rest == unescaped(Tail(source))
       IN [ok |-> rest.ok, lit |-> <<Head(source)>> \o rest.lit]

\* new RegExp(source, flags) for the sources rxEsc gives: <<the RegExp>>, or <<>>
\* for the SyntaxError of an invalid escape
newRegExp(source, flags) ==
  IF unescaped(source).ok THEN <<RegExpLit(unescaped(source).lit, flags)>> ELSE <<>>

\* toRx: <<the RegExp>>, or <<>> when new RegExp throws.  rxEsc escapes white
\* space and - ! < = # , too, which the flag v does not accept escaped.
toRx(str) == newRegExp(rxEsc(Chars(str)), "vy")

asRx(el) == IF el.t = "RegExp" THEN <<el.v>> ELSE <<>>

\* asRx(rule[1]) || toRx(rule[0]): <<the RegExp>>, or <<>> when toRx throws
ruleRx(spec) == IF asRx(At(spec, 1)) # <<>> THEN asRx(At(spec, 1)) ELSE toRx(spec[1].v)

\* buildRule: <<rule>>, or <<>> when it throws: the SyntaxError of toRx, or the
\* LexError of a RegExp without the flags vy.
buildRule(spec, group) ==
  LET rx == ruleRx(spec)
  IN IF rx # <<>> /\ rx[1].flags = "vy"
     THEN << [name |-> spec[1].v, group |-> group, pop |-> specPop(spec),
              push |-> specPush(spec), action |-> specAction(spec), rx |-> rx[1]] >>
     ELSE <<>>

\* what buildRule throws: "none" when it returns
buildRuleError(spec, group) ==
  IF ruleRx(spec) = <<>> THEN "SyntaxError"
  ELSE IF ruleRx(spec)[1].flags # "vy" THEN "LexError"
  ELSE "none"

\* Rule for unexpected text
INVALID ==
  [name |-> "INVALID", group |-> "ALL", pop |-> TRUE, push |-> NULL,
   action |-> "identity", rx |-> RegExpObject(RegExpPlus("dot", "vy"), <<"INVALID", 0>>)]

\* ------------------------------------------------------------- buildRules
\* a rule put in front of its group (unshift for push)
ruleGroupUnshift(ruleGroup, rule) == <<rule>> \o ruleGroup

\* ruleGroup.push(rule)
ruleGroupPush(ruleGroup, rule) == Append(ruleGroup, rule)

\* for (const spec of specGroup) ruleGroup.push(buildRule(spec, name)), over the
\* first n specs of the group
\* The rule buildRule makes of the n-th spec of a group, its RegExp being an
\* object of its own: the one toRx has made for this rule, or the one the spec
\* holds, every spec of a table being written with a RegExp literal of its own.
buildRuleAt(specGroup, name, n) ==
  LET r == buildRule(specGroup[n], name)[1]
  IN [name |-> r.name, group |-> r.group, pop |-> r.pop, push |-> r.push,
      action |-> r.action, rx |-> RegExpObject(r.rx, <<name, n>>)]

RECURSIVE buildGroup(_, _, _)
buildGroup(specGroup, name, n) ==
  IF n = 0 THEN <<>>
  ELSE ruleGroupPush(buildGroup(specGroup, name, n - 1), buildRuleAt(specGroup, name, n))

\* what the first buildRule that throws, of the first n specs of a group, throws
RECURSIVE groupError(_, _, _)
groupError(specGroup, name, n) ==
  IF n = 0 THEN "none"
  ELSE IF groupError(specGroup, name, n - 1) # "none" THEN groupError(specGroup, name, n - 1)
  ELSE buildRuleError(specGroup[n], name)

\* the same over the first n contexts of the specs
RECURSIVE specsError(_, _)
specsError(specs, n) ==
  IF n = 0 THEN "none"
  ELSE IF specsError(specs, n - 1) # "none" THEN specsError(specs, n - 1)
  ELSE groupError(specs[n].specs, specs[n].name, Len(specs[n].specs))

\* no buildRule of the group throws
groupBuilds(specGroup, name) ==
  \A i \in 1..Len(specGroup) : buildRule(specGroup[i], name) # <<>>

\* Object.keys: the names of an object given as the sequence of its entries
Keys(obj) == [i \in 1..Len(obj) |-> obj[i].name]

\* Some of the properties every object literal inherits from Object.prototype:
\* `rules` is created as {}, so rules[name] finds them too.
ObjectPrototypeKeys == {"constructor", "toString", "valueOf", "hasOwnProperty"}

\* rules[name]: <<the value found>>, or <<>> for undefined.  The value is a
\* rule group (own) or, for an inherited property, a function, which is not
\* null and not iterable.
Lookup(rules, name) ==
  LET hit == SelectSeq(rules, LAMBDA e : e.name = name)
  IN IF hit # <<>> THEN <<[own |-> TRUE, ruleGroup |-> hit[1].ruleGroup]>>
     ELSE IF name \in ObjectPrototypeKeys THEN <<[own |-> FALSE, ruleGroup |-> <<>>]>>
     ELSE <<>>

\* The rules of the context ALL followed by INVALID.
buildRuleGroupAll(specs) ==
  LET all == SelectSeq(specs, LAMBDA e : e.name = "ALL")
  IN (IF all # <<>> THEN buildGroup(all[1].specs, "ALL", Len(all[1].specs)) ELSE <<>>)
       \o <<INVALID>>

\* The object `rules`: one entry per context, in the order of the specs; the
\* entry of ALL is the array ruleGroupAll itself, INVALID included.
buildRulesTable(specs) ==
  [i \in 1..Len(specs) |->
     [name |-> specs[i].name,
      ruleGroup |-> IF specs[i].name = "ALL" THEN buildRuleGroupAll(specs)
                    ELSE buildGroup(specs[i].specs, specs[i].name, Len(specs[i].specs))]]

\* check that all push strings refer an existing group
pushesFound(rules) ==
  \A i \in 1..Len(rules) : \A j \in 1..Len(rules[i].ruleGroup) :
     LET rule == rules[i].ruleGroup[j]
     IN rule.push = NULL \/ Lookup(rules, rule.push) # <<>>

\* buildRules returns (ok) or throws: what the first buildRule that throws has
\* thrown, else the LexError of a push that is not found
buildRules(specs) ==
  LET built == \A i \in 1..Len(specs) : groupBuilds(specs[i].specs, specs[i].name)
  IN IF ~built
     THEN [ok |-> FALSE, rules |-> <<>>, ruleGroupAll |-> <<>>,
           error |-> specsError(specs, Len(specs))]
     ELSE IF ~pushesFound(buildRulesTable(specs))
     THEN [ok |-> FALSE, rules |-> <<>>, ruleGroupAll |-> <<>>, error |-> "LexError"]
     ELSE [ok |-> TRUE, rules |-> buildRulesTable(specs),
           ruleGroupAll |-> buildRuleGroupAll(specs), error |-> "none"]

\* compileLexer returns a Lexer (ok) or throws what buildRules throws; start is
\* the first key of rules, and the empty spec, which has none, is a LexError.
compileLexer(specs) ==
  LET b == buildRules(specs)
  IN IF ~b.ok
     THEN [ok |-> FALSE, rules |-> <<>>, ruleGroupAll |-> <<>>, start |-> NULL,
           error |-> b.error]
     ELSE IF Keys(b.rules) = <<>>
     THEN [ok |-> FALSE, rules |-> <<>>, ruleGroupAll |-> <<>>, start |-> NULL,
           error |-> "LexError"]
     ELSE [ok |-> TRUE, rules |-> b.rules, ruleGroupAll |-> b.ruleGroupAll,
           start |-> Keys(b.rules)[1], error |-> "none"]

\* ------------------------------------------------------------- the lexers
Digits == RegExpPlus("digit", "vy")
Spaces == RegExpPlus("space", "vy")
Quote == RegExpLit(<<"\"">>, "vy")
NotQuotes == RegExpPlus("notquote", "vy")

\* NUM and a WS whose action returns null
NumWsSpecs ==
  << [name |-> "main",
      specs |-> << <<Str("NUM"), Rx(Digits)>>, <<Str("WS"), Rx(Spaces), Fn("null")>> >>] >>

\* one context, no rule but the catch-all
CatchAllSpecs == << [name |-> "main", specs |-> <<>>] >>

\* a string context entered and left on a double quote
QuoteSpecs ==
  << [name |-> "main", specs |-> << <<Str("QUOTE"), Rx(Quote), Str("str")>> >>],
     [name |-> "str",
      specs |-> << <<Str("TEXT"), Rx(NotQuotes)>>, <<Str("QUOTE"), Rx(Quote), POP>> >>] >>

\* overlapping rules in one context, and rules of ALL behind them
PrecSpecs ==
  << [name |-> "main",
      specs |-> << <<Str("a")>>, <<Str("AS"), Rx(RegExpPlus("a", "vy"))>>,
                   <<Str("SKIP"), Rx(Spaces), Fn("null")>>,
                   <<Str("SP"), Rx(RegExpLit(<<" ">>, "vy"))>> >>],
     [name |-> "ALL",
      specs |-> << <<Str("D"), Rx(Digits)>>, <<Str("ANY"), Rx(NotQuotes)>> >>] >>

\* a pattern that matches the empty string, before a relabelled one
ZeroSpecs ==
  << [name |-> "main",
      specs |-> << <<Str("Z"), Rx(RegExpStar("a", "vy"))>>,
                   <<Str("D"), Rx(Digits), Fn("relabel")>> >>] >>

\* literal rules that push and pop
PushPopSpecs ==
  << [name |-> "main", specs |-> << <<Str("a"), Str("in")>>, <<Str("1"), POP>> >>],
     [name |-> "in",
      specs |-> << <<Str("1"), POP, Fn("identity")>>,
                   <<Str("AS"), Rx(RegExpPlus("a", "vy")), Str("in")>> >>] >>

\* ALL declared first, so that it is the start context
AllFirstSpecs ==
  << [name |-> "ALL",
      specs |-> << <<Str("WS"), Rx(Spaces), Fn("null")>>, <<Str("a"), Str("main")>> >>],
     [name |-> "main", specs |-> << <<Str("D"), Rx(Digits), POP>> >>] >>

\* rejected by compileLexer: a RegExp without the sticky flag, an unknown push
\* target, no context at all
BadFlagsSpecs == << [name |-> "main", specs |-> << <<Str("NUM"), Rx(RegExpPlus("digit", "v"))>> >>] >>
UnknownPushSpecs == << [name |-> "main", specs |-> << <<Str("a"), Str("nowhere")>> >>] >>
EmptySpecs == << >>

SpecsSet ==
  {NumWsSpecs, CatchAllSpecs, QuoteSpecs, PrecSpecs, ZeroSpecs, PushPopSpecs,
   AllFirstSpecs, BadFlagsSpecs, UnknownPushSpecs, EmptySpecs}

\* a push target that no context declares but every object inherits
ProtoPushSpecs ==
  << [name |-> "main", specs |-> << <<Str("a"), Str("constructor")>>, <<Str("D"), Rx(Digits)>> >>] >>

\* an unknown push target in the context ALL, declared last
UnknownPushAllSpecs ==
  << [name |-> "main", specs |-> << <<Str("D"), Rx(Digits)>> >>],
     [name |-> "ALL", specs |-> << <<Str("a"), Str("nowhere")>> >>] >>

\* a push to ALL, which is not declared
UndeclaredAllSpecs == << [name |-> "main", specs |-> << <<Str("a"), Str("ALL")>> >>] >>

\* a literal rule that both pushes and pops: the array the helpers accept
\* although no Spec type describes it
PopPushSpecs ==
  << [name |-> "main", specs |-> << <<Str("a"), Str("in"), POP>>, <<Str("D"), Rx(Digits)>> >>],
     [name |-> "in", specs |-> << <<Str("1"), POP>>, <<Str("a"), Str("main"), POP>> >>] >>

\* a literal rule of a space, which toRx makes no RegExp of
SpaceLiteralSpecs ==
  << [name |-> "main", specs |-> << <<Str("D"), Rx(Digits)>>, <<Str(" ")>> >>] >>

\* every spec table compileLexer is called with
AllSpecsSet ==
  SpecsSet \cup {ProtoPushSpecs, UnknownPushAllSpecs, UndeclaredAllSpecs, PopPushSpecs,
                 SpaceLiteralSpecs}

\* the two texts of the scenarios: 12 34 and "ab"c
NumWsText == <<"1", "2", " ", "3", "4">>
QuoteText == <<"\"", "a", "b", "\"", "c">>

Texts == UNION {[1..n -> Alphabet] : n \in 0..MaxLen} \cup {NumWsText, QuoteText}

\* the lexers and the texts of two streams followed side by side
StreamsSpecsSet == {NumWsSpecs, PrecSpecs, PushPopSpecs, AllFirstSpecs}

\* the texts of a stream read through nextToken() and through iterators
TextsIterate == UNION {[1..n -> {"a", "1", " "}] : n \in 0..MaxLenStreams}

TextsStreams == UNION {[1..n -> {"a", "1"}] : n \in 0..MaxLenStreams}

\* ------------------------------------------------------------- state
VARIABLES
  specs,         \* Lexer.specs
  rules,         \* Lexer.rules
  ruleGroupAll,  \* the closure's ruleGroupAll
  start,         \* the closure's start
  lastIndex,     \* lastIndex of every RegExp object of the rules
  s,             \* the text of the stream
  stack,         \* lex: the context stack, current context first
  offset,        \* lex: the cursor
  pc,            \* where the generator is: none, start, loop, yielded, final, done
  rule,          \* lex: <<the rule of the for loop>> while suspended at its yield
  tokens,        \* the tokens nextToken() has returned, in order
  ret,           \* how the last nextToken() ended: none, running, token, or an error
  nsteps,        \* iterations of the while loop begun
  nfail,         \* nextToken() calls made on the finished generator
  lexer,         \* what compileLexer(specs) gave: pending, Lexer, LexError, SyntaxError
  dbg,           \* the closure's dbg: TRUE for dbgEnabled
  texts,         \* the texts the caller tokenizes
  views,         \* for each token of tokens, the view that delivered it
  niter,         \* iterators obtained from the tokenizer
  other,         \* the stream the caller is not calling now
  cur            \* which of the two streams the caller is calling: 1 or 2

\* the state of one stream
streamVars == <<s, stack, offset, pc, rule, tokens, ret, nsteps, nfail, views, niter>>

vars == <<specs, rules, ruleGroupAll, start, lastIndex, lexer, dbg, texts, streamVars,
          other, cur>>

lexerVars == <<specs, rules, ruleGroupAll, start, lexer, texts>>

\* a stream that has not been created
NoStream ==
  [s |-> <<>>, stack |-> <<>>, offset |-> 0, pc |-> "none", rule |-> <<>>, tokens |-> <<>>,
   ret |-> "none", nsteps |-> 0, nfail |-> 0, views |-> <<>>, niter |-> 0]

\* every RegExp object of the compiled rules
AllRx(rs, all) ==
  UNION {{rs[i].ruleGroup[j].rx : j \in 1..Len(rs[i].ruleGroup)} : i \in 1..Len(rs)}
    \cup {all[j].rx : j \in 1..Len(all)}

\* The state after compileLexer(specs) has returned a Lexer.
Init ==
  /\ \E sp \in SpecsSet :
       /\ compileLexer(sp).ok
       /\ specs = sp
       /\ rules = compileLexer(sp).rules
       /\ ruleGroupAll = compileLexer(sp).ruleGroupAll
       /\ start = compileLexer(sp).start
  /\ lastIndex = [rx \in AllRx(rules, ruleGroupAll) |-> 0]
  /\ lexer = "Lexer"
  /\ dbg \in BOOLEAN
  /\ texts = Texts
  /\ s = <<>>
  /\ stack = <<>>
  /\ offset = 0
  /\ pc = "none"
  /\ rule = <<>>
  /\ tokens = <<>>
  /\ ret = "none"
  /\ nsteps = 0
  /\ nfail = 0
  /\ views = <<>>
  /\ niter = 0
  /\ other = NoStream
  /\ cur = 1

\* ------------------------------------------------------------- lex
\* a token placed at the end of its text
makeTokenAtEnd(data, text, off) ==
  [name |-> data.name, group |-> data.group, text |-> text, offset |-> off + Len(text)]

\* makeToken, without the line and column of the position query
makeToken(data, text, off) ==
  [name |-> data.name, group |-> data.group, text |-> text, offset |-> off]

\* rule.action(token): <<the token returned>>, or <<>> for null
action(a, token) ==
  CASE a = "identity" -> <<token>>
    [] a = "null"     -> <<>>
    [] a = "relabel"  -> <<[token EXCEPT !.name = "RELABELLED"]>>

\* an empty match taken for a match
noMatchOnlyNull(m) == m = NoMatch

\* !match || match[0] === ""
noMatch(m) == m = NoMatch \/ m = 0

\* the offset taken from lastIndex before the action's result is looked at
offsetOnNullAdvanced(off, li) == li

\* the offset the next rule is tried at after an action returned null, li being
\* the rule's lastIndex: `continue` leaves the offset alone
offsetOnNull(off, li) == off

\* the rules of ALL tried before those of the context
ruleGroupAllFirst(curr, all) == all \o curr

\* [ ...curr, ...ruleGroupAll ]
ruleGroupOf(curr, all) == curr \o all

\* a RegExp tried from where its lastIndex was left
setLastIndexKept(li, off) == li

\* rule.rx.lastIndex = offset: the lastIndex exec() starts from, li being the
\* one the RegExp had
setLastIndex(li, off) == off

\* The for loop over ruleGroup from its i-th rule, li being the lastIndex of
\* every RegExp: whether it yields, the rule and the token it yields, the
\* offset it leaves, how many rules it tried, and the lastIndex it leaves.
\* a null token that ends the for loop, as a break would
continueAfterNullBreaks(ruleGroup, i) == Len(ruleGroup) + 1

\* if (token === null) continue: the index of the rule tried next
continueAfterNull(ruleGroup, i) == i + 1

RECURSIVE forRules(_, _, _, _, _)
forRules(ruleGroup, i, text, off, li) ==
  IF i > Len(ruleGroup)
  THEN [yield |-> FALSE, rule |-> <<>>, token |-> <<>>, offset |-> off,
        tried |-> Len(ruleGroup), lastIndex |-> li]
  ELSE LET r == ruleGroup[i]
           at == setLastIndex(li[r.rx], off)
           m == Exec(r.rx, text, at)
           li2 == [li EXCEPT ![r.rx] = ExecLastIndex(r.rx, text, at)]
       IN IF noMatch(m) THEN forRules(ruleGroup, i + 1, text, off, li2)
          ELSE LET token == action(r.action, makeToken(r, SubSeq(text, at + 1, at + m), off))
               IN IF token = <<>>
                  THEN forRules(ruleGroup, continueAfterNull(ruleGroup, i), text,
                                       offsetOnNull(off, li2[r.rx]), li2)
                  ELSE [yield |-> TRUE, rule |-> <<r>>, token |-> token,
                        offset |-> li2[r.rx], tried |-> i, lastIndex |-> li2]

\* stack[0]: <<the name>>, or <<>> for undefined
currLexerOf(stk) == IF stk = <<>> THEN <<>> ELSE <<Head(stk)>>

\* rules[currLexer]
currOf(rs, currLexer) == IF currLexer = <<>> THEN <<>> ELSE Lookup(rs, currLexer[1])

\* an empty stack not noticed
lexerIsEmptyNever(currLexer) == FALSE

\* currLexer == null
lexerIsEmpty(currLexer) == currLexer = <<>>

\* a pop that is not carried out
applyPopNever(r, stk) == stk

\* if (rule.pop) stack.shift()
applyPop(r, stk) == IF r.pop /\ stk # <<>> THEN Tail(stk) ELSE stk

\* a push to the back of the stack
applyPushAtBack(r, stk) == IF r.push # NULL /\ r.push # "" THEN stk \o <<r.push>> ELSE stk

\* if (rule.push) stack.unshift(rule.push)
applyPush(r, stk) == IF r.push # NULL /\ r.push # "" THEN <<r.push>> \o stk ELSE stk

\* the FINAL token placed at the end of the text
finalOffsetIsLength(off, text) == Len(text)

\* the offset of the FINAL token
finalOffset(off, text) == off

FINAL(off) == makeToken([group |-> "FINAL", name |-> "FINAL"], <<>>, off)

\* tokenizerBuilder(text): a stream over text, its generator not yet started
tokenizerBuilder ==
  /\ lexer = "Lexer"
  /\ pc = "none"
  /\ \E text \in texts : s' = text
  /\ \E opt \in BOOLEAN : dbg' = opt
  /\ stack' = <<start>>
  /\ offset' = 0
  /\ pc' = "start"
  /\ UNCHANGED <<lexerVars, lastIndex, rule, tokens, ret, nsteps, nfail, views, niter,
                 other, cur>>

\* result.done of tokenGenerator.next(): the generator had finished, or was
\* suspended at its last yield and now returns
generatorDone(p) == p \in {"final", "done"}

\* nextToken() calls tokenGenerator.next(): a finished generator (also one
\* suspended at its last yield, which then returns) makes it throw
\* LexEndedError; otherwise the generator runs on from where it is suspended,
\* after a yield through the pop and the push of its rule and the break, to
\* the head of the while loop.
nextToken ==
  /\ pc \in {"start", "yielded", "final", "done"}
  /\ IF generatorDone(pc)
     THEN /\ nfail < MaxFail
          /\ pc' = "done"
          /\ ret' = "LexEndedError"
          /\ nfail' = nfail + 1
          /\ UNCHANGED <<stack, rule>>
     ELSE /\ pc' = "loop"
          /\ ret' = "running"
          /\ stack' = IF pc = "yielded" THEN applyPush(rule[1], applyPop(rule[1], stack))
                      ELSE stack
          /\ rule' = <<>>
          /\ UNCHANGED nfail
  /\ UNCHANGED <<lexerVars, lastIndex, dbg, s, offset, tokens, nsteps, views, niter,
                 other, cur>>

\* the view a running call came through
viewOf(r) == IF r = "iterating" THEN "iterator" ELSE "nextToken"

\* One pass of the generator from the head of the while loop to its next yield
\* or back to the head: the FINAL token when the text is used up or the stack
\* is empty, else one iteration of the loop body.
lex ==
  /\ pc = "loop"
  /\ IF ~(offset < Len(s)) \/ lexerIsEmpty(currLexerOf(stack))
     THEN /\ tokens' = Append(tokens, FINAL(finalOffset(offset, s)))
          /\ views' = Append(views, viewOf(ret))
          /\ pc' = "final"
          /\ ret' = "token"
          /\ UNCHANGED <<lastIndex, offset, rule, nsteps>>
     ELSE /\ nsteps < MaxSteps
          /\ nsteps' = nsteps + 1
          /\ LET curr == currOf(rules, currLexerOf(stack))
             IN IF curr = <<>>
                THEN \* assertDefined(curr) throws
                     /\ pc' = "done"
                     /\ ret' = "InternalError"
                     /\ UNCHANGED <<lastIndex, offset, rule, tokens, views>>
                ELSE IF ~curr[1].own
                THEN \* [ ...curr ] of a value that is not iterable throws
                     /\ pc' = "done"
                     /\ ret' = "TypeError"
                     /\ UNCHANGED <<lastIndex, offset, rule, tokens, views>>
                ELSE LET ruleGroup == ruleGroupOf(curr[1].ruleGroup, ruleGroupAll)
                         res == forRules(ruleGroup, 1, s, offset, lastIndex)
                     IN /\ lastIndex' = res.lastIndex
                        /\ offset' = res.offset
                        /\ rule' = res.rule
                        /\ IF res.yield
                           THEN /\ tokens' = Append(tokens, res.token[1])
                                /\ views' = Append(views, viewOf(ret))
                                /\ pc' = "yielded"
                                /\ ret' = "token"
                           ELSE UNCHANGED <<tokens, views, pc, ret>>
  /\ UNCHANGED <<lexerVars, dbg, s, stack, nfail, niter, other, cur>>

Next == tokenizerBuilder \/ nextToken \/ lex

Spec == Init /\ [][Next]_vars

\* ------------------------------------------------------------- iteration
\* an iterator that is a generator of its own, at the start of the text
iteratorRestarted(off) == 0

\* [Symbol.iterator]: () => tokenGenerator: the cursor of the iterator is the
\* cursor of the one generator of the tokenizer
iteratorOf(off) == off

\* tokenizer[Symbol.iterator](): the caller obtains an iterator
iterator ==
  /\ pc \in {"start", "yielded", "final", "done"}
  /\ niter < MaxIter
  /\ niter' = niter + 1
  /\ offset' = iteratorOf(offset)
  /\ UNCHANGED <<lexerVars, lastIndex, dbg, s, stack, pc, rule, tokens, ret, nsteps, nfail,
                 views, other, cur>>

\* next() of an iterator, which is tokenGenerator.next(): a finished generator
\* answers done, it does not throw; otherwise as in nextToken()
iteratorNext ==
  /\ niter > 0
  /\ pc \in {"start", "yielded", "final", "done"}
  /\ IF generatorDone(pc)
     THEN /\ pc' = "done"
          /\ ret' = "iteratorDone"
          /\ UNCHANGED <<stack, rule>>
     ELSE /\ pc' = "loop"
          /\ ret' = "iterating"
          /\ stack' = IF pc = "yielded" THEN applyPush(rule[1], applyPop(rule[1], stack))
                      ELSE stack
          /\ rule' = <<>>
  /\ UNCHANGED <<lexerVars, lastIndex, dbg, s, offset, tokens, nsteps, nfail, views, niter,
                 other, cur>>

\* return() of an iterator, which a for-of loop calls when it is left early:
\* the suspended generator finishes where it is, without the pop and the push
\* of the rule it yielded from
iteratorReturn ==
  /\ niter > 0
  /\ pc \in {"start", "yielded", "final", "done"}
  /\ pc' = "done"
  /\ ret' = "iteratorDone"
  /\ UNCHANGED <<lexerVars, lastIndex, dbg, s, stack, offset, rule, tokens, nsteps, nfail,
                 views, niter, other, cur>>

\* The state after compileLexer(specs), for a caller that reads a stream
\* through both views.
InitIterate ==
  /\ \E sp \in SpecsSet :
       /\ compileLexer(sp).ok
       /\ specs = sp
       /\ rules = compileLexer(sp).rules
       /\ ruleGroupAll = compileLexer(sp).ruleGroupAll
       /\ start = compileLexer(sp).start
  /\ lastIndex = [rx \in AllRx(rules, ruleGroupAll) |-> 0]
  /\ lexer = "Lexer"
  /\ dbg \in BOOLEAN
  /\ texts = TextsIterate
  /\ s = <<>>
  /\ stack = <<>>
  /\ offset = 0
  /\ pc = "none"
  /\ rule = <<>>
  /\ tokens = <<>>
  /\ ret = "none"
  /\ nsteps = 0
  /\ nfail = 0
  /\ views = <<>>
  /\ niter = 0
  /\ other = NoStream
  /\ cur = 1

NextIterate == tokenizerBuilder \/ nextToken \/ lex \/ iterator \/ iteratorNext \/ iteratorReturn

SpecIterate == InitIterate /\ [][NextIterate]_vars

\* ------------------------------------------------------------- two streams
\* The state after compileLexer(specs), for a caller that makes two streams.
InitStreams ==
  /\ \E sp \in StreamsSpecsSet :
       /\ compileLexer(sp).ok
       /\ specs = sp
       /\ rules = compileLexer(sp).rules
       /\ ruleGroupAll = compileLexer(sp).ruleGroupAll
       /\ start = compileLexer(sp).start
  /\ lastIndex = [rx \in AllRx(rules, ruleGroupAll) |-> 0]
  /\ lexer = "Lexer"
  /\ dbg \in BOOLEAN
  /\ texts = TextsStreams
  /\ s = <<>>
  /\ stack = <<>>
  /\ offset = 0
  /\ pc = "none"
  /\ rule = <<>>
  /\ tokens = <<>>
  /\ ret = "none"
  /\ nsteps = 0
  /\ nfail = 0
  /\ views = <<>>
  /\ niter = 0
  /\ other = NoStream
  /\ cur = 1

\* The caller turns to its other tokenizer.  It can do so between two calls
\* only: a running nextToken() returns before anything else happens.
turnToOther ==
  /\ lexer = "Lexer"
  /\ pc # "loop"
  /\ other' = [s |-> s, stack |-> stack, offset |-> offset, pc |-> pc, rule |-> rule,
               tokens |-> tokens, ret |-> ret, nsteps |-> nsteps, nfail |-> nfail,
               views |-> views, niter |-> niter]
  /\ s' = other.s
  /\ stack' = other.stack
  /\ offset' = other.offset
  /\ pc' = other.pc
  /\ rule' = other.rule
  /\ tokens' = other.tokens
  /\ ret' = other.ret
  /\ nsteps' = other.nsteps
  /\ nfail' = other.nfail
  /\ views' = other.views
  /\ niter' = other.niter
  /\ cur' = 3 - cur
  /\ UNCHANGED <<lexerVars, lastIndex, dbg>>

NextStreams == tokenizerBuilder \/ nextToken \/ lex \/ turnToOther

SpecStreams == InitStreams /\ [][NextStreams]_vars

\* ------------------------------------------------------------- compileLexer
\* The state before compileLexer(specs) is called, for any spec table.
InitCompile ==
  /\ specs \in AllSpecsSet
  /\ rules = <<>>
  /\ ruleGroupAll = <<>>
  /\ start = NULL
  /\ lastIndex = <<>>
  /\ lexer = "pending"
  /\ dbg = FALSE
  /\ texts = Texts
  /\ s = <<>>
  /\ stack = <<>>
  /\ offset = 0
  /\ pc = "none"
  /\ rule = <<>>
  /\ tokens = <<>>
  /\ ret = "none"
  /\ nsteps = 0
  /\ nfail = 0
  /\ views = <<>>
  /\ niter = 0
  /\ other = NoStream
  /\ cur = 1

\* compileLexer(specs, opt) returns the Lexer or throws a LexError or the
\* SyntaxError of new RegExp
compile ==
  /\ lexer = "pending"
  /\ IF compileLexer(specs).ok
     THEN /\ lexer' = "Lexer"
          /\ rules' = compileLexer(specs).rules
          /\ ruleGroupAll' = compileLexer(specs).ruleGroupAll
          /\ start' = compileLexer(specs).start
          /\ lastIndex' = [rx \in AllRx(rules', ruleGroupAll') |-> 0]
          /\ \E opt \in BOOLEAN : dbg' = opt
     ELSE /\ lexer' = compileLexer(specs).error
          /\ UNCHANGED <<rules, ruleGroupAll, start, lastIndex, dbg>>
  /\ UNCHANGED <<specs, texts, streamVars, other, cur>>

NextCompile == compile \/ tokenizerBuilder \/ nextToken \/ lex

SpecCompile == InitCompile /\ [][NextCompile]_vars

\* ------------------------------------------------------------- properties
Tok(name, group, text, off) == [name |-> name, group |-> group, text |-> text, offset |-> off]

IsFINAL(tok) == tok.name = "FINAL" /\ tok.group = "FINAL" /\ tok.text = <<>>

HasFINAL(toks) == \E k \in 1..Len(toks) : IsFINAL(toks[k])

\* the specs declared under the context c, and the rule of the i-th of them
Declared(c) ==
  LET e == SelectSeq(specs, LAMBDA x : x.name = c)
  IN IF e = <<>> THEN <<>> ELSE e[1].specs

DeclaredRule(c, i) == buildRuleAt(Declared(c), c, i)

\* r matches a non-empty text at the offset o of the stream's text
MatchesAt(r, o) == Exec(r.rx, s, o) > 0

\* r matches there and its action returns a token
YieldsAt(r, o) == MatchesAt(r, o) /\ r.action # "null"

RECURSIVE ConcatTexts(_)
ConcatTexts(toks) ==
  IF toks = <<>> THEN <<>> ELSE ConcatTexts(SubSeq(toks, 1, Len(toks) - 1)) \o toks[Len(toks)].text

\* the stream has delivered its last token
Finished == pc = "final" \/ (pc = "done" /\ ret = "LexEndedError")

\* C1: a stream takes at most length(text) scan steps (iterations of the while
\* loop) before its FINAL token, each step consuming a character or ending the
\* scan.
C1_AtMostLengthSteps == nsteps <= Len(s)

\* C2 as stated: a null action consumes its match, so that on "12 34" the
\* lexer NUM, WS (null) yields NUM "12" at 0, NUM "34" at 3, FINAL at 5.
C2_NullActionConsumes ==
  (specs = NumWsSpecs /\ s = NumWsText /\ pc = "final")
    => tokens = << Tok("NUM", "main", <<"1", "2">>, 0), Tok("NUM", "main", <<"3", "4">>, 3),
                   FINAL(5) >>

\* C2 amended: a rule whose action returns null is skipped without moving the
\* offset, the rules after it are tried at the same offset, so every token
\* starts where the token before it ended; on "12 34" the tokens are NUM "12"
\* at 0, INVALID " 34" at 2 (the catch-all takes over at the space), FINAL at 5.
C2_NullActionSkipsRule ==
  /\ \A k \in 1..Len(tokens) :
       tokens[k].offset = IF k = 1 THEN 0 ELSE tokens[k - 1].offset + Len(tokens[k - 1].text)
  /\ (specs = NumWsSpecs /\ s = NumWsText /\ pc = "final")
       => tokens = << Tok("NUM", "main", <<"1", "2">>, 0),
                      Tok("INVALID", "ALL", <<" ", "3", "4">>, 2), FINAL(5) >>

C2_Witness ==
  /\ specs = NumWsSpecs /\ s = NumWsText /\ pc = "final"
  /\ Len(tokens) = 3 /\ tokens[2].offset = 2

\* C3: with one context and no rule but the catch-all, the texts of the tokens
\* before FINAL concatenate to the whole non-empty input, and FINAL is at its
\* length.
C3_CatchAllCoversInput ==
  (specs = CatchAllSpecs /\ s # <<>> /\ pc = "final")
    => /\ ConcatTexts(SubSeq(tokens, 1, Len(tokens) - 1)) = s
       /\ tokens[Len(tokens)].offset = Len(s)

\* C4: the tokens of a finished stream hold exactly one FINAL token, the last,
\* at the offset where scanning stopped; a stream that has not finished has
\* delivered none.
C4_OneFinalLast ==
  LET finals == {k \in 1..Len(tokens) : IsFINAL(tokens[k])}
  IN /\ Finished => (finals = {Len(tokens)} /\ tokens[Len(tokens)].offset = offset)
     /\ ~Finished => finals = {}

C4_Witness ==
  pc = "done" /\ Len(tokens) >= 3 /\ offset < Len(s) /\ IsFINAL(tokens[Len(tokens)])

\* a step that is a call of nextToken(), not a step of an iterator
NextTokenCalled == niter' = niter /\ ret' \notin {"iterating", "iteratorDone"}

\* C5: nextToken() fails with LexEndedError only after FINAL was returned by
\* the tokenizer, and once FINAL was returned every further call of it fails
\* with LexEndedError and returns no token.
C5_ExhaustedAfterFinal ==
  /\ [](ret = "LexEndedError" => HasFINAL(tokens))
  /\ [][(HasFINAL(tokens) /\ NextTokenCalled)
         => (ret' = "LexEndedError" /\ tokens' = tokens /\ nfail' = nfail + 1)]_vars

\* C6 as stated: of two rules declared in the current context that both match
\* non-empty at the offset of a token, the later one never produced the token.
C6_EarlierRuleAlwaysWins ==
  pc = "yielded" =>
    LET c == Head(stack)
        o == tokens[Len(tokens)].offset
    IN \A j \in 1..Len(Declared(c)) : \A i \in 1..(j - 1) :
         (MatchesAt(DeclaredRule(c, i), o) /\ MatchesAt(DeclaredRule(c, j), o))
           => rule[1] # DeclaredRule(c, j)

\* C6 amended: the later rule never produced the token when the earlier one
\* matches there and its action returns a token (an earlier rule whose action
\* returns null is skipped).
C6_EarlierYieldingRuleWins ==
  pc = "yielded" =>
    LET c == Head(stack)
        o == tokens[Len(tokens)].offset
    IN \A j \in 1..Len(Declared(c)) : \A i \in 1..(j - 1) :
         (YieldsAt(DeclaredRule(c, i), o) /\ MatchesAt(DeclaredRule(c, j), o))
           => rule[1] # DeclaredRule(c, j)

C6_Witness ==
  /\ pc = "yielded"
  /\ LET c == Head(stack)
         o == tokens[Len(tokens)].offset
     IN \E j \in 1..Len(Declared(c)) : \E i \in 1..(j - 1) :
          /\ YieldsAt(DeclaredRule(c, i), o) /\ YieldsAt(DeclaredRule(c, j), o)
          /\ rule[1] = DeclaredRule(c, i)

\* C7 as stated: a token comes from the catch-all only if no rule of the
\* current context and no rule of ALL matches at its offset, and from a rule of
\* ALL only if no rule of the current context matches there.
C7_ContextThenAllThenCatchAll ==
  pc = "yielded" =>
    LET c == Head(stack)
        o == tokens[Len(tokens)].offset
        ctxMatches == \E i \in 1..Len(Declared(c)) : MatchesAt(DeclaredRule(c, i), o)
        allMatches == \E i \in 1..Len(Declared("ALL")) : MatchesAt(DeclaredRule("ALL", i), o)
    IN /\ rule[1] = INVALID => (~ctxMatches /\ ~allMatches)
       /\ (rule[1].group = "ALL" /\ rule[1] # INVALID) => ~ctxMatches

\* C7 amended: a token comes from the catch-all only if no rule of the current
\* context and no rule of ALL matches at its offset with an action that returns
\* a token, and from a rule of ALL, in a context other than ALL, only if no rule
\* of the current context does.
C7_YieldingContextThenAllThenCatchAll ==
  pc = "yielded" =>
    LET c == Head(stack)
        o == tokens[Len(tokens)].offset
        ctxYields == \E i \in 1..Len(Declared(c)) : YieldsAt(DeclaredRule(c, i), o)
        allYields == \E i \in 1..Len(Declared("ALL")) : YieldsAt(DeclaredRule("ALL", i), o)
    IN /\ rule[1] = INVALID => (~ctxYields /\ ~allYields)
       /\ (rule[1].group = "ALL" /\ rule[1] # INVALID /\ c # "ALL") => ~ctxYields

C7_Witness ==
  /\ pc = "yielded"
  /\ Head(stack) # "ALL"
  /\ rule[1].group = Head(stack)
  /\ LET o == tokens[Len(tokens)].offset
     IN /\ \E i \in 1..Len(Declared("ALL")) : YieldsAt(DeclaredRule("ALL", i), o)
        /\ MatchesAt(INVALID, o)

\* the names, texts and offsets of the tokens
Shown(toks) == [k \in 1..Len(toks) |-> <<toks[k].name, toks[k].text, toks[k].offset>>]

\* C8 as stated: on "ab"c the quote lexer yields QUOTE, TEXT "ab", QUOTE, then
\* the catch-all token as TEXT "c", then FINAL.
C8_CatchAllNamedTEXT ==
  (specs = QuoteSpecs /\ s = QuoteText /\ pc = "final")
    => Shown(tokens) = << <<"QUOTE", <<"\"">>, 0>>, <<"TEXT", <<"a", "b">>, 1>>,
                          <<"QUOTE", <<"\"">>, 3>>, <<"TEXT", <<"c">>, 4>>,
                          <<"FINAL", <<>>, 5>> >>

\* C8 amended: on "ab"c the quote lexer yields QUOTE at 0, and scans on with
\* str in front of main; TEXT "ab" at 1; QUOTE at 3, and scans on in main
\* alone; the catch-all token INVALID "c" (group ALL) at 4; FINAL at 5.
C8_QuoteScenario ==
  (specs = QuoteSpecs /\ s = QuoteText) =>
    /\ (pc = "loop" /\ Len(tokens) = 1) => stack = <<"str", "main">>
    /\ (pc = "loop" /\ Len(tokens) = 3) => stack = <<"main">>
    /\ pc = "final" =>
         tokens = << Tok("QUOTE", "main", <<"\"">>, 0), Tok("TEXT", "str", <<"a", "b">>, 1),
                     Tok("QUOTE", "str", <<"\"">>, 3), Tok("INVALID", "ALL", <<"c">>, 4),
                     FINAL(5) >>

C8_Witness == specs = QuoteSpecs /\ s = QuoteText /\ pc = "final" /\ Len(tokens) = 5

\* C9: no token but FINAL has an empty text, the offsets of successive tokens
\* increase strictly, the cursor is past the offset of the token just yielded,
\* and the rule that yielded it matched a non-empty text there.
C9_NoZeroLengthToken ==
  /\ \A k \in 1..Len(tokens) : ~IsFINAL(tokens[k]) => tokens[k].text # <<>>
  /\ \A k \in 2..Len(tokens) : tokens[k].offset > tokens[k - 1].offset
  /\ pc = "yielded" =>
       /\ offset > tokens[Len(tokens)].offset
       /\ MatchesAt(rule[1], tokens[Len(tokens)].offset)

\* a token yielded by a rule tried after one that matches the empty string there
C9_Witness ==
  /\ pc = "yielded"
  /\ LET c == Head(stack)
         o == tokens[Len(tokens)].offset
     IN \E j \in 1..Len(Declared(c)) : \E i \in 1..(j - 1) :
          /\ Exec(DeclaredRule(c, i).rx, s, o) = 0
          /\ rule[1] = DeclaredRule(c, j)

\* C10: at an empty stack the scan ends: the generator's next step yields the
\* FINAL token and nothing else, whatever input is left.
C10_EmptyStackEndsScan ==
  [][(pc = "loop" /\ stack = <<>>)
       => (pc' = "final" /\ ret' = "token" /\ tokens' = Append(tokens, FINAL(offset)))]_vars

\* FINAL delivered after a pop emptied the stack, with input left
C10_Witness ==
  /\ pc = "final" /\ stack = <<>> /\ offset < Len(s)
  /\ Len(tokens) >= 2 /\ IsFINAL(tokens[Len(tokens)])

\* the names of the declared contexts
DeclaredNames == {specs[i].name : i \in 1..Len(specs)}

\* a rule of some context names a push target that no context declares
UndeclaredPush ==
  \E i \in 1..Len(specs) : \E j \in 1..Len(specs[i].specs) :
    specPush(specs[i].specs[j]) # NULL /\ specPush(specs[i].specs[j]) \notin DeclaredNames

\* every RegExp of the specs has the flags vy
PatternsSticky ==
  \A i \in 1..Len(specs) : \A j \in 1..Len(specs[i].specs) :
    asRx(At(specs[i].specs[j], 1)) # <<>> => asRx(At(specs[i].specs[j], 1))[1].flags = "vy"

\* every literal rule of the specs has a name toRx makes a RegExp of
LiteralsCompile ==
  \A i \in 1..Len(specs) : \A j \in 1..Len(specs[i].specs) : ruleRx(specs[i].specs[j]) # <<>>

\* C11: compileLexer throws a LexError when the spec table is empty or a rule of
\* any context names a push target that is not a declared context, and rejects
\* no table for push targets that are all declared.
C11_RejectsUndeclaredPush ==
  lexer # "pending" =>
    /\ (specs = <<>> \/ UndeclaredPush) => lexer = "LexError"
    /\ (specs # <<>> /\ ~UndeclaredPush /\ PatternsSticky /\ LiteralsCompile)
         => lexer = "Lexer"

\* the state of the stream i of the two
StreamOf(i) ==
  IF cur = i
  THEN [s |-> s, stack |-> stack, offset |-> offset, pc |-> pc, rule |-> rule,
        tokens |-> tokens, ret |-> ret, nsteps |-> nsteps, nfail |-> nfail,
        views |-> views, niter |-> niter]
  ELSE other

IsPrefix(a, b) == Len(a) <= Len(b) /\ SubSeq(b, 1, Len(a)) = a

\* The tokens lex(text, stk) yields from the offset off when nothing else uses
\* the Lexer, li being the lastIndex of its RegExps: none after a pass of the
\* loop that yields nothing, since every later pass is the same.
RECURSIVE ScanAlone(_, _, _, _, _)
ScanAlone(text, stk, off, li, fuel) ==
  IF ~(off < Len(text)) \/ stk = <<>> THEN <<FINAL(off)>>
  ELSE LET curr == currOf(rules, currLexerOf(stk))
       IN IF fuel = 0 \/ curr = <<>> THEN <<>>
          ELSE IF ~curr[1].own THEN <<>>
          ELSE LET res == forRules(ruleGroupOf(curr[1].ruleGroup, ruleGroupAll), 1, text, off, li)
               IN IF res.yield
                  THEN <<res.token[1]>> \o
                       ScanAlone(text, applyPush(res.rule[1], applyPop(res.rule[1], stk)),
                                 res.offset, res.lastIndex, fuel - 1)
                  ELSE <<>>

\* the token sequence of a stream over text that runs alone on a fresh Lexer
AloneTokens(text) ==
  ScanAlone(text, <<start>>, 0, [rx \in AllRx(rules, ruleGroupAll) |-> 0], Len(text) + 1)

\* C12: of two streams of one Lexer, under every interleaving of their
\* nextToken() calls, each has delivered a prefix of the token sequence it
\* delivers alone, and the whole of it once it has delivered FINAL.
C12_StreamsDoNotInterfere ==
  \A i \in {1, 2} :
    LET st == StreamOf(i)
    IN st.pc # "none" =>
         /\ IsPrefix(st.tokens, AloneTokens(st.s))
         /\ st.pc \in {"final", "done"} => st.tokens = AloneTokens(st.s)

\* both streams suspended in the middle of their texts, one of them in a
\* context the other is not in
C12_Witness ==
  /\ StreamOf(1).pc = "yielded" /\ StreamOf(2).pc = "yielded"
  /\ Len(StreamOf(1).tokens) = 2 /\ Len(StreamOf(2).tokens) = 1
  /\ StreamOf(1).s # StreamOf(2).s
  /\ StreamOf(1).stack # StreamOf(2).stack

\* C13: creating a stream or requesting a token changes that stream's own
\* stack and offset only: the compiled rule table, the lastIndex of each
\* rule's RegExp and the debug setting of the Lexer stay as they are.
C13_StreamsShareNothing ==
  [][/\ rules' = rules
     /\ ruleGroupAll' = ruleGroupAll
     /\ lastIndex' = lastIndex
     /\ dbg' = dbg]_vars

\* a pass of the loop in which no rule of the effective sequence, the
\* catch-all included, matches at the offset
NoRuleMatches ==
  /\ pc = "loop"
  /\ offset < Len(s)
  /\ stack # <<>>
  /\ currOf(rules, currLexerOf(stack)) # <<>>
  /\ currOf(rules, currLexerOf(stack))[1].own
  /\ LET ruleGroup == ruleGroupOf(currOf(rules, currLexerOf(stack))[1].ruleGroup, ruleGroupAll)
     IN \A i \in 1..Len(ruleGroup) : noMatch(Exec(ruleGroup[i].rx, s, offset))

\* C14: a pass in which no rule matches while text is left and the stack is
\* not empty ends the scan with an InternalError.
C14_NoMatchIsInternalError ==
  [][NoRuleMatches => (ret' = "InternalError" /\ pc' = "done")]_vars

\* C15: the group of a token is the context at the front of the stack when it
\* was matched, also when an ALL rule or the catch-all matched; the group of
\* the FINAL token is FINAL.
C15_GroupIsStackFront ==
  /\ (pc = "yielded" /\ stack # <<>>) => tokens[Len(tokens)].group = Head(stack)
  /\ pc = "final" => tokens[Len(tokens)].group = "FINAL"

\* C16: nextToken() and the iterators of a tokenizer share one cursor:
\* obtaining an iterator does not restart the scan, and the tokens delivered
\* through any mix of nextToken() calls and iterator steps are, in the order
\* of delivery and each once, the token sequence of the stream: a prefix of
\* it at any time, the whole once FINAL is delivered.
C16_OneCursor ==
  pc # "none" =>
    /\ Len(views) = Len(tokens)
    /\ IsPrefix(tokens, AloneTokens(s))
    /\ HasFINAL(tokens) => tokens = AloneTokens(s)

\* a stream read to its FINAL token through both views, by turns, with a
\* second iterator obtained on the way
C16_Witness ==
  /\ pc = "final"
  /\ niter = 2
  /\ Len(tokens) >= 3
  /\ \E i \in 1..(Len(views) - 2) :
       views[i] = "iterator" /\ views[i + 1] = "nextToken" /\ views[i + 2] = "iterator"

\* C17: the stack of a stream starts as the one element naming the first
\* declared context, and while the scan goes on the front of a stack that is
\* not empty names a context of the compiled rule table, so that the
\* assertion on the rule group of the front never fails.
C17_StackFrontCompiled ==
  lexer = "Lexer" =>
    /\ pc = "start" => stack = <<specs[1].name>>
    /\ (pc \in {"start", "loop", "yielded"} /\ stack # <<>>) =>
         \E k \in 1..Len(rules) : rules[k].name = Head(stack)
    /\ ret # "InternalError"

\* the stack that follows the stack S = [c] ++ rest after a token of the rule r
StackAfter(r, S) ==
  LET pops == r.pop
      pushes == r.push # NULL /\ r.push # ""
      rest == Tail(S)
  IN IF pops /\ pushes THEN <<r.push>> \o rest
     ELSE IF pops THEN rest
     ELSE IF pushes THEN <<r.push>> \o S
     ELSE S

\* C18: the stack is as it was when a token is yielded; when the generator
\* runs on after the token of a rule, the stack S = [c] ++ rest becomes rest if
\* the rule only pops, [t] ++ S if it only pushes t, [t] ++ rest if it does
\* both, and stays S if it does neither; but for the making of a stream,
\* nothing else changes the stack.
C18_PopThenPushAfterYield ==
  [][/\ (pc = "loop" /\ pc' = "yielded") => stack' = stack
     /\ (pc = "yielded" /\ pc' = "loop") => stack' = StackAfter(rule[1], stack)
     /\ stack' # stack =>
          \/ pc = "none" /\ pc' = "start" /\ stack' = <<start>>
          \/ pc = "yielded" /\ pc' = "loop"]_vars

\* after the token of the rule of main that pops and pushes "in", the stack
\* [main] has become [in]
C18_Witness ==
  /\ specs = PopPushSpecs
  /\ pc = "loop"
  /\ tokens # <<>>
  /\ tokens[Len(tokens)].name = "a" /\ tokens[Len(tokens)].group = "main"
  /\ Len(tokens) = 1
  /\ stack = <<"in">>

\* the effective rule sequence of a pass of the loop
EffectiveRules ==
  ruleGroupOf(currOf(rules, currLexerOf(stack))[1].ruleGroup, ruleGroupAll)

\* a pass of the loop that comes to a rule which matches and whose action
\* returns null: no rule before it yields a token
NullRuleReached ==
  /\ pc = "loop"
  /\ offset < Len(s)
  /\ stack # <<>>
  /\ currOf(rules, currLexerOf(stack)) # <<>>
  /\ currOf(rules, currLexerOf(stack))[1].own
  /\ \E i \in 1..Len(EffectiveRules) :
       /\ MatchesAt(EffectiveRules[i], offset)
       /\ EffectiveRules[i].action = "null"
       /\ \A k \in 1..(i - 1) : ~YieldsAt(EffectiveRules[k], offset)

\* C19: a rule whose action returns null is skipped: its match yields no
\* token and leaves the stack and the offset as they are, and the rules after
\* it are tried at the same offset, so that the pass yields the token of the
\* first rule that matches there with another action, or none.
C19_NullActionFrame ==
  [][NullRuleReached =>
       LET yielding == {j \in 1..Len(EffectiveRules) : YieldsAt(EffectiveRules[j], offset)}
       IN /\ stack' = stack
          /\ IF yielding = {}
             THEN tokens' = tokens /\ offset' = offset /\ pc' = "loop"
             ELSE LET j == CHOOSE j \in yielding : \A k \in yielding : j <= k
                      m == Exec(EffectiveRules[j].rx, s, offset)
                  IN /\ Len(tokens') = Len(tokens) + 1
                     /\ SubSeq(tokens', 1, Len(tokens)) = tokens
                     /\ tokens'[Len(tokens')].offset = offset
                     /\ tokens'[Len(tokens')].text = SubSeq(s, offset + 1, offset + m)
                     /\ tokens'[Len(tokens')].group = EffectiveRules[j].group
                     /\ offset' = offset + m
                     /\ pc' = "yielded"]_vars

\* in main of the lexer of precedences, at a space in the middle of the text:
\* SKIP matches it and returns null, the rule SP after it yields it
C19_Witness ==
  /\ specs = PrecSpecs
  /\ pc = "yielded"
  /\ Len(tokens) >= 2
  /\ tokens[Len(tokens)].name = "SP" /\ tokens[Len(tokens)].text = <<" ">>
  /\ tokens[Len(tokens)].offset > 0
  /\ offset = tokens[Len(tokens)].offset + 1
  /\ stack = <<"main">>

\* C20: with actions that leave the text and the offset of a token alone, the
\* texts of the tokens yielded so far concatenate to text[0 .. offset), and
\* the offset of each token is the sum of the lengths of the texts of the
\* tokens before it: the offset moves only by the yield of a token.
C20_NoGap ==
  /\ ConcatTexts(tokens) = SubSeq(s, 1, offset)
  /\ \A k \in 1..Len(tokens) :
       tokens[k].offset = Len(ConcatTexts(SubSeq(tokens, 1, k - 1)))

\* a text of three characters used up by a token of two and a token of one
C20_Witness ==
  /\ pc = "yielded"
  /\ Len(s) = 3
  /\ offset = 3
  /\ Len(tokens) = 2
  /\ Len(tokens[1].text) = 2
  /\ tokens[2].offset = 2
====
